---- MODULE Spec2Model ----
(***************************************************************************)
(* Model of the APNS delivery client (src/client.go): the Client with its  *)
(* mutex, sequence counter, cached connection, replay queue (sentQ), the   *)
(* internal error channel (errChan) with its consumer goroutine, one       *)
(* reader goroutine per opened connection (startRead), the asynchronous    *)
(* tryReset / saveErr / re-send goroutines, and the process-wide           *)
(* ErrChannel.                                                             *)
(*                                                                         *)
(* Goroutines that hold the client mutex for their whole body and cannot   *)
(* block inside it are one atomic action each, guarded by the mutex being  *)
(* free.  saveErr can block on the channel send while holding the mutex,   *)
(* so it is two actions with the mutex held in between.  Send and Connect  *)
(* wait on the network (DialTimeout, Handshake, Write) with the mutex      *)
(* held: such a call is an action that takes the mutex and one that        *)
(* completes the call, and the goroutines that take no mutex (the readers, *)
(* the consumer's receive, "go conn.Close()") run in between.  The reader  *)
(* of a connection opened inside a call can close it before the call       *)
(* reaches SetWriteDeadline.                                               *)
(***************************************************************************)
EXTENDS Integers, Sequences, FiniteSets, Bags

\* ------------------------------------------------------------------------
\* Bounds of the model (scaled-down sizes; the source values are noted).
\* ------------------------------------------------------------------------
\* capacity of the replay queue (MAX_SEND_Q, 10000 in src/client.go:17)
MaxSendQ == 3
\* wraparound bound of the sequence counter (IdentifierUbound)
MaxIdent == 4
\* capacity of the internal error channel (10 in src/client.go:73)
ErrChanCap == 1
\* notification objects the callers may pass to Send
MaxPn == 5
\* connections that may be opened over the client's lifetime
MaxConns == 2
\* notification objects in the runs that follow a client to its end
ClosePn == 3
\* the same two bounds for the runs that load the failure handoff
HandoffPn == 4
HandoffConns == 4

\* ------------------------------------------------------------------------
\* Values
\* ------------------------------------------------------------------------
\* nil *tls.Conn / nil *PushNotification
Nil == 0

PNs == 1..MaxPn
Conns == 1..(IF HandoffConns > MaxConns THEN HandoffConns ELSE MaxConns)

MAX_SEND_Q == MaxSendQ
IdentifierUbound == MaxIdent

\* the command byte of an error-response frame
ERR_RESPONSE_CMD == 8

\* status codes the reason table knows
ApplePushResponses == {0, 8}

\* command and status bytes a frame read off the wire may carry
FrameCommands == {0, ERR_RESPONSE_CMD}
FrameStatuses == {8, 9}
FrameIdentifiers == 0..(IdentifierUbound - 1)

\* nil *errResponse
NilRes == [Command |-> -1, Status |-> -1, Identifier |-> -1]

\* error values
NoErr == "nil"
ErrNotRunning == "client is not running"
ErrSerialize == "payload"
ErrCert == "cert"
ErrDial == "dial"
ErrHandshake == "handshake"
ErrClosedConn == "use of closed network connection"
ErrWrite == "write"

\* what the environment makes the steps of openConnection do
OpenOutcomes == {"ok", "cert", "dial", "handshake"}
\* what the environment makes a Write on a connection do
WriteOutcomes == {"ok", "fail"}
\* what pn.ToBytes() does
SerializeOutcomes == {"ok", "fail"}
\* what the reader of a connection opened inside connectAndWrite has done
\* when the call reaches SetWriteDeadline on it: it is still reading, or
\* its Read has failed and it has closed the connection
ReaderOutcomes == {"reading", "closed"}

IOChoices == [open1 : OpenOutcomes, read1 : ReaderOutcomes,
              write1 : WriteOutcomes,
              open2 : OpenOutcomes, read2 : ReaderOutcomes,
              write2 : WriteOutcomes]

\* One choice for every distinct course of a Send: a step that is never
\* reached (no open with a cached connection, no retry after a good write,
\* nothing after a failed serialization, open or SetWriteDeadline) is fixed
\* to "ok", and the reader of a connection that was not opened to
\* "reading".
Reached(hasConn, ser, io) ==
  /\ (ser = "fail" \/ hasConn) => io.open1 = "ok"
  /\ (ser = "fail" \/ hasConn \/ io.open1 # "ok") => io.read1 = "reading"
  /\ (ser = "fail" \/ io.open1 # "ok" \/ io.read1 = "closed")
       => io.write1 = "ok"
  /\ io.write1 = "ok" => io.open2 = "ok"
  /\ (io.write1 = "ok" \/ io.open2 # "ok") => io.read2 = "reading"
  /\ (io.open2 # "ok" \/ io.read2 = "closed") => io.write2 = "ok"

\* the courses of a Send with and without a cached connection
CoursesConn ==
  {c \in [ser : SerializeOutcomes, io : IOChoices] : Reached(TRUE, c.ser, c.io)}
CoursesNoConn ==
  {c \in [ser : SerializeOutcomes, io : IOChoices] : Reached(FALSE, c.ser, c.io)}
Courses(conn) == IF conn = Nil THEN CoursesNoConn ELSE CoursesConn

VARIABLES
  running,         \* client.running
  counter,         \* client.counter
  apnsConnection,  \* client.apnsConnection: Nil or a connection
  certLoaded,      \* client.certificate.PrivateKey != nil
  sentQ,           \* client.sentQ: sequence of notification objects
  ident,           \* pn.Identifier of every notification object
  errChan,         \* client.errChan: buffered reports
  errChanClosed,   \* close(client.errChan) has run
  closeCount,      \* how many times close(client.errChan) has run
  sentOnClosed,    \* a send on the closed errChan has happened (panic)
  lock,            \* client mutex: Nil (free), the connection whose saveErr
                   \* holds it, or the call that holds it (InSend, ...)
  nconns,          \* connections opened so far; they are 1..nconns
  connClosed,      \* connections on which Close() has been called
  pendingClose,    \* connections with a "go conn.Close()" not yet run
  reader,          \* per connection: its startRead goroutine and what it spawned
  consumer,        \* the goroutine ranging over errChan
  resend,          \* the re-send goroutines: the notifications each has left
  ErrChannel,      \* bag of the SendErr values the last step handed to ErrChannel
  nextPn,          \* notification objects the callers have used so far
  last             \* the step that led to this state and what it returned

vars == <<running, counter, apnsConnection, certLoaded, sentQ, ident, errChan,
          errChanClosed, closeCount, sentOnClosed, lock, nconns, connClosed,
          pendingClose, reader, consumer, resend, ErrChannel, nextPn, last>>

\* ------------------------------------------------------------------------
\* Replay queue (pnQueue): Append, Tail, Clear
\* ------------------------------------------------------------------------
newPnQueue == << >>

\* append, evicting the oldest entry first when at capacity
pnqAppend(q, pn) ==
  IF Len(q) >= MAX_SEND_Q THEN Append(Tail(q), pn) ELSE Append(q, pn)

\* position of the oldest entry carrying identifier id, 0 when there is none
pnqFind(q, idf, id) ==
  IF \E i \in 1..Len(q) : idf[q[i]] = id
    THEN CHOOSE i \in 1..Len(q) :
           /\ idf[q[i]] = id
           /\ \A j \in 1..(i - 1) : idf[q[j]] # id
    ELSE 0

\* Tail(id): the matched entry and the entries inserted after it, in order;
\* no match gives (Nil, empty)
pnqTail(q, idf, id) ==
  LET k == pnqFind(q, idf, id) IN
  IF k = 0 THEN [errPn |-> Nil, reSend |-> << >>]
  ELSE [errPn |-> q[k], reSend |-> SubSeq(q, k + 1, Len(q))]

pnqClear == << >>

\* ------------------------------------------------------------------------
\* Connection manager: getCertificate, openConnection, connectAndWrite.
\* A connection state st is [conn, cert, nconns]: the cached connection,
\* whether the certificate is loaded, and how many connections were opened.
\* ------------------------------------------------------------------------
\* the certificate is loaded once; loading fails when the environment says so
GetCertificate(cert, o) ==
  IF ~cert
    THEN IF o = "cert" THEN [err |-> ErrCert, cert |-> FALSE]
                       ELSE [err |-> NoErr, cert |-> TRUE]
    ELSE [err |-> NoErr, cert |-> TRUE]

\* openConnection: certificate, dial, handshake; on success the new
\* connection is cached (and its reader started, see StartReaders)
OpenConnection(st, o) ==
  LET gc == GetCertificate(st.cert, o) IN
  IF gc.err # NoErr
    THEN [err |-> gc.err, conn |-> st.conn, cert |-> gc.cert, nconns |-> st.nconns]
  ELSE IF o = "dial"
    THEN [err |-> ErrDial, conn |-> st.conn, cert |-> gc.cert, nconns |-> st.nconns]
  ELSE IF o = "handshake"
    THEN [err |-> ErrHandshake, conn |-> st.conn, cert |-> gc.cert, nconns |-> st.nconns]
  ELSE [err |-> NoErr, conn |-> st.nconns + 1, cert |-> gc.cert,
        nconns |-> st.nconns + 1]

\* SetWriteDeadline fails on a connection that was closed locally
SetWriteDeadline(conn, closed) ==
  IF conn \in closed THEN ErrClosedConn ELSE NoErr

\* Write on a connection: the environment decides
Write(w) == IF w = "ok" THEN NoErr ELSE ErrWrite

\* what connectAndWrite returns after the retry write has succeeded: the
\* function's own err variable, which still holds the first write's error
\* (the retry's errors live in shadowing variables)
RetryReturn(firstErr) == firstErr

\* the connections closed once the reader of connection conn, started by
\* the openConnection that has just returned err, has done what rd says:
\* startRead runs without the client lock, so its Read can fail and its
\* conn.Close() run while the call that opened conn goes on
ReaderClosed(closed, err, conn, rd) ==
  IF err = NoErr /\ rd = "closed" THEN closed \cup {conn} ELSE closed

\* connectAndWrite: the returned error, the connection state afterwards,
\* the number of Write calls, of openConnection calls, whether a Write of
\* the payload succeeded, and the connections closed when it returns
ConnectAndWrite(st, closed, io) ==
  LET needOpen == st.conn = Nil
      o1 == IF needOpen THEN OpenConnection(st, io.open1)
            ELSE [err |-> NoErr, conn |-> st.conn, cert |-> st.cert,
                  nconns |-> st.nconns]
      n1 == IF needOpen THEN 1 ELSE 0
      s1 == [conn |-> o1.conn, cert |-> o1.cert, nconns |-> o1.nconns]
      c1 == IF needOpen THEN ReaderClosed(closed, o1.err, o1.conn, io.read1)
            ELSE closed
      Ret(e, s, w, o, ok, cl) ==
        [err |-> e, st |-> s, writes |-> w, opens |-> o, wroteOk |-> ok,
         closed |-> cl]
  IN
  IF o1.err # NoErr THEN Ret(o1.err, s1, 0, n1, FALSE, c1)
  ELSE IF SetWriteDeadline(o1.conn, c1) # NoErr
    THEN Ret(SetWriteDeadline(o1.conn, c1), s1, 0, n1, FALSE, c1)
  ELSE IF Write(io.write1) = NoErr THEN Ret(NoErr, s1, 1, n1, TRUE, c1)
  ELSE
    LET o2 == OpenConnection(s1, io.open2)
        s2 == [conn |-> o2.conn, cert |-> o2.cert, nconns |-> o2.nconns]
        c2 == ReaderClosed(c1, o2.err, o2.conn, io.read2)
    IN
    IF o2.err # NoErr THEN Ret(o2.err, s2, 1, n1 + 1, FALSE, c2)
    ELSE IF SetWriteDeadline(o2.conn, c2) # NoErr
      THEN Ret(SetWriteDeadline(o2.conn, c2), s2, 1, n1 + 1, FALSE, c2)
    ELSE IF Write(io.write2) # NoErr
      THEN Ret(Write(io.write2), s2, 2, n1 + 1, FALSE, c2)
    ELSE Ret(RetryReturn(Write(io.write1)), s2, 2, n1 + 1, TRUE, c2)

\* "go startRead(client, tlsConn)" for every connection opened by a call;
\* a reader that has closed its connection by the time the call returns
\* has started "go client.tryReset(conn)", which waits for the lock
StartReaders(n0, n1, closed) ==
  [c \in Conns |-> IF c > n0 /\ c <= n1
                     THEN IF c \in closed
                            THEN [pc |-> "tryReset", rsp |-> NilRes]
                            ELSE [pc |-> "read", rsp |-> NilRes]
                     ELSE reader[c]]

\* ------------------------------------------------------------------------
\* Initial state: the client as create() returns it
\* ------------------------------------------------------------------------
\* the record of a step: what ran, on which notification / connection, what
\* it returned (for a call that returns nothing: the early return it took),
\* its I/O (Write calls, openConnection calls, whether a Write of the
\* payload succeeded), the report handleErrResponse was called with, and
\* for a Send that reached pn.ToBytes() whether the payload serialized
Step(op, pn, conn, err, w, o, ok) ==
  [op |-> op, pn |-> pn, conn |-> conn, err |-> err,
   writes |-> w, opens |-> o, wroteOk |-> ok, res |-> NilRes,
   payload |-> "none"]

\* the step record of a goroutine step that returns nothing to a caller
Idle == Step("go", Nil, Nil, NoErr, 0, 0, FALSE)

Init ==
  /\ running = TRUE
  /\ counter = 0
  /\ apnsConnection = Nil
  /\ certLoaded = FALSE
  /\ sentQ = newPnQueue
  /\ ident = [p \in PNs |-> 0]
  /\ errChan = << >>
  /\ errChanClosed = FALSE
  /\ closeCount = 0
  /\ sentOnClosed = FALSE
  /\ lock = Nil
  /\ nconns = 0
  /\ connClosed = {}
  /\ pendingClose = {}
  /\ reader = [c \in Conns |-> [pc |-> "none", rsp |-> NilRes]]
  /\ consumer = [pc |-> "recv", res |-> NilRes]
  /\ resend = << >>
  /\ ErrChannel = EmptyBag
  /\ nextPn = 0
  /\ last = [op |-> "create", pn |-> Nil, conn |-> Nil, err |-> NoErr,
             writes |-> 0, opens |-> 0, wroteOk |-> FALSE, res |-> NilRes,
             payload |-> "none"]

\* ------------------------------------------------------------------------
\* Calls that wait on the network with the client lock held
\* ------------------------------------------------------------------------
\* the lock is held by a caller's Send, by Connect, by a re-send
\* goroutine's Send
InSend == 0 - 1
InConnect == 0 - 2
InReSend == 0 - 3

\* "client.Lock()" of a call that goes on to the network: the call has
\* passed its running check and has the lock until CallReturns; nothing
\* bounds the wait (tlsConn.Handshake() has no deadline)
CallEnters(who) ==
  /\ lock = Nil
  /\ running
  /\ lock' = who
  /\ last' = Idle
  /\ ErrChannel' = EmptyBag
  /\ UNCHANGED <<running, counter, apnsConnection, certLoaded, sentQ, ident,
                 errChan, errChanClosed, closeCount, sentOnClosed, nconns,
                 connClosed, pendingClose, reader, consumer, resend, nextPn>>

\* a caller's Send, of at most pns, waits in connectAndWrite
SendEntersWithin(pns) == nextPn < pns /\ CallEnters(InSend)

SendEnters == SendEntersWithin(MaxPn)

\* Connect waits in openConnection
ConnectEnters == apnsConnection = Nil /\ CallEnters(InConnect)

\* the Send of a re-send goroutine waits in connectAndWrite
ReSendEnters == resend # << >> /\ CallEnters(InReSend)

\* ------------------------------------------------------------------------
\* Client.Send
\* ------------------------------------------------------------------------
\* Send without its running check
SendNeverRejects(r) == FALSE

\* "if !client.running" of Send
SendNotRunning(r) == ~r

\* the counter advanced without the wraparound
NextCounterNoWrap(c) == c + 1

\* client.counter = (client.counter + 1) % IdentifierUbound
NextCounter(c) == (c + 1) % IdentifierUbound

\* the notification appended whatever connectAndWrite returned
SendAppendAlways(q, pn, err) == pnqAppend(q, pn)

\* "client.sentQ.Append(pn)" when connectAndWrite returned no error
SendAppend(q, pn, err) == IF err = NoErr THEN pnqAppend(q, pn) ELSE q

\* the cached connection kept after a failed connectAndWrite
SendConnKeep(conn, err) == conn

\* "client.apnsConnection = nil" when connectAndWrite returned an error
SendConnAfter(conn, err) == IF err = NoErr THEN conn ELSE Nil

\* a failed Send that reports nothing on ErrChannel
SendEmissionNone(pn, err) == EmptyBag

\* "go func() { ErrChannel <- &SendErr{Pn: pn, Res: nil} }()" on an error
SendEmission(pn, err) ==
  IF err = NoErr THEN EmptyBag ELSE SetToBag({[Pn |-> pn, Res |-> NilRes]})

\* "payload, err := pn.ToBytes()": the error it returns
ToBytes(ser) == IF ser = "fail" THEN ErrSerialize ELSE NoErr

\* Send that goes on to connectAndWrite after a failed serialization
SendSerializeIgnored(err) == FALSE

\* "if err != nil { return err }" after pn.ToBytes()
SendSerializeFails(err) == err # NoErr

\* The body of Send(pn) under the client lock.  ser is what pn.ToBytes()
\* does, io what the network does; op names the caller for the step record;
\* conns bounds the connections opened so far.
DoSend(conns, op, pn, ser, io) ==
  IF SendNotRunning(running)
    THEN /\ last' = Step(op, pn, Nil, ErrNotRunning, 0, 0, FALSE)
         /\ UNCHANGED <<counter, ident, apnsConnection, certLoaded, nconns,
                        connClosed, reader, sentQ>>
         /\ ErrChannel' = EmptyBag
  ELSE
    /\ ident' = [ident EXCEPT ![pn] = counter]
    /\ counter' = NextCounter(counter)
    /\ IF SendSerializeFails(ToBytes(ser))
         THEN /\ last' = [Step(op, pn, Nil, ToBytes(ser), 0, 0, FALSE) EXCEPT
                            !.payload = ser]
              /\ UNCHANGED <<apnsConnection, certLoaded, nconns, connClosed,
                             reader, sentQ>>
              /\ ErrChannel' = EmptyBag
         ELSE
           LET r == ConnectAndWrite([conn |-> apnsConnection, cert |-> certLoaded,
                                     nconns |-> nconns], connClosed, io)
           IN
           /\ r.st.nconns <= conns
           /\ certLoaded' = r.st.cert
           /\ nconns' = r.st.nconns
           /\ connClosed' = r.closed
           /\ reader' = StartReaders(nconns, r.st.nconns, r.closed)
           /\ sentQ' = SendAppend(sentQ, pn, r.err)
           /\ apnsConnection' = SendConnAfter(r.st.conn, r.err)
           /\ ErrChannel' = SendEmission(pn, r.err)
           /\ last' = [Step(op, pn, r.st.conn, r.err, r.writes, r.opens,
                             r.wroteOk) EXCEPT !.payload = ser]

\* a caller's Send of a notification object not passed before, one of at
\* most pns
SendWithin(pns, conns) ==
  /\ lock \in {Nil, InSend}
  /\ nextPn < pns
  /\ \E c \in Courses(apnsConnection) :
       DoSend(conns, "Send", nextPn + 1, c.ser, c.io)
  /\ nextPn' = IF running THEN nextPn + 1 ELSE nextPn
  /\ lock' = Nil
  /\ UNCHANGED <<running, errChan, errChanClosed, closeCount, sentOnClosed,
                 pendingClose, consumer, resend>>

Send == SendWithin(MaxPn, MaxConns)

\* ------------------------------------------------------------------------
\* Client.Connect
\* ------------------------------------------------------------------------
\* "if !client.running" of Connect
ConnectNotRunning(r) == ~r

ConnectWithin(conns) ==
  /\ lock \in {Nil, InConnect}
  /\ IF ConnectNotRunning(running)
       THEN /\ last' = Step("Connect", Nil, Nil, ErrNotRunning, 0, 0, FALSE)
            /\ UNCHANGED <<apnsConnection, certLoaded, nconns, reader>>
     ELSE IF apnsConnection = Nil
       THEN \E o \in OpenOutcomes :
              LET r == OpenConnection([conn |-> apnsConnection,
                                       cert |-> certLoaded, nconns |-> nconns], o)
              IN
              /\ r.nconns <= conns
              /\ apnsConnection' = r.conn
              /\ certLoaded' = r.cert
              /\ nconns' = r.nconns
              /\ reader' = StartReaders(nconns, r.nconns, connClosed)
              /\ last' = Step("Connect", Nil, r.conn, r.err, 0, 1, FALSE)
     ELSE /\ last' = Step("Connect", Nil, apnsConnection, NoErr, 0, 0, FALSE)
          /\ UNCHANGED <<apnsConnection, certLoaded, nconns, reader>>
  /\ lock' = Nil
  /\ UNCHANGED <<running, counter, sentQ, ident, errChan, errChanClosed,
                 closeCount, sentOnClosed, connClosed, pendingClose,
                 consumer, resend, nextPn>>
  /\ ErrChannel' = EmptyBag

Connect == ConnectWithin(MaxConns)

\* ------------------------------------------------------------------------
\* Client.Close
\* ------------------------------------------------------------------------
\* "if !client.running" of Close
CloseNotRunning(r) == ~r

Close ==
  /\ lock = Nil
  /\ IF CloseNotRunning(running)
       THEN UNCHANGED <<running, errChanClosed, closeCount, apnsConnection,
                        pendingClose>>
       ELSE /\ running' = FALSE
            /\ errChanClosed' = TRUE
            /\ closeCount' = closeCount + 1
            /\ pendingClose' = IF apnsConnection = Nil THEN pendingClose
                               ELSE pendingClose \cup {apnsConnection}
            /\ apnsConnection' = Nil
  /\ last' = Step("Close", Nil, apnsConnection,
                  IF CloseNotRunning(running) THEN ErrNotRunning ELSE NoErr,
                  0, 0, FALSE)
  /\ UNCHANGED <<counter, certLoaded, sentQ, ident, errChan, sentOnClosed,
                 lock, nconns, connClosed, reader, consumer, resend, nextPn>>
  /\ ErrChannel' = EmptyBag

\* the "go conn.Close()" started by Close
ConnClose ==
  /\ \E c \in pendingClose :
       /\ pendingClose' = pendingClose \ {c}
       /\ connClosed' = connClosed \cup {c}
       /\ last' = Idle
  /\ UNCHANGED <<running, counter, apnsConnection, certLoaded, sentQ, ident,
                 errChan, errChanClosed, closeCount, sentOnClosed, lock,
                 nconns, reader, consumer, resend, nextPn>>
  /\ ErrChannel' = EmptyBag

\* ------------------------------------------------------------------------
\* startRead: the reader goroutine of connection c
\* ------------------------------------------------------------------------
\* conn.Read fails: conn.Close(), "go client.tryReset(conn)", return
ReaderReadErr ==
  /\ \E c \in Conns :
       /\ reader[c].pc = "read"
       /\ connClosed' = connClosed \cup {c}
       /\ reader' = [reader EXCEPT ![c] = [pc |-> "tryReset", rsp |-> NilRes]]
       /\ last' = Idle
  /\ UNCHANGED <<running, counter, apnsConnection, certLoaded, sentQ, ident,
                 errChan, errChanClosed, closeCount, sentOnClosed, lock,
                 nconns, pendingClose, consumer, resend, nextPn>>
  /\ ErrChannel' = EmptyBag

\* what startRead does with a frame it has read: "saveErr" when it starts
\* "go client.saveErr(errRsp)", "done" when it discards the frame
FrameVerdict(rsp) ==
  IF rsp.Command # ERR_RESPONSE_CMD THEN "done"
  ELSE IF rsp.Status \notin ApplePushResponses THEN "done"
  ELSE "saveErr"

\* conn.Read returns a 6-byte frame, with its command, status and
\* identifier among cmds, sts and ids; a connection closed locally cannot
\* deliver one
ReaderFrameOf(cmds, sts, ids) ==
  /\ \E c \in Conns, cmd \in cmds, st \in sts, id \in ids :
       LET rsp == [Command |-> cmd, Status |-> st, Identifier |-> id] IN
       /\ reader[c].pc = "read"
       /\ c \notin connClosed
       /\ reader' = [reader EXCEPT ![c] =
                       IF FrameVerdict(rsp) = "saveErr"
                         THEN [pc |-> "saveErr", rsp |-> rsp]
                         ELSE [pc |-> "done", rsp |-> NilRes]]
       /\ last' = Idle
  /\ UNCHANGED <<running, counter, apnsConnection, certLoaded, sentQ, ident,
                 errChan, errChanClosed, closeCount, sentOnClosed, lock,
                 nconns, connClosed, pendingClose, consumer, resend, nextPn>>
  /\ ErrChannel' = EmptyBag

ReaderFrame == ReaderFrameOf(FrameCommands, FrameStatuses, FrameIdentifiers)

\* ------------------------------------------------------------------------
\* Client.tryReset(conn)
\* ------------------------------------------------------------------------
\* tryReset without its "client.apnsConnection == conn" comparison
ResetConnAlways(r, cached, conn) == IF ~r THEN cached ELSE Nil

\* the cached connection after tryReset(conn)
ResetConn(r, cached, conn) ==
  IF ~r THEN cached
  ELSE IF cached = conn THEN Nil ELSE cached

TryReset ==
  /\ lock = Nil
  /\ \E c \in Conns :
       /\ reader[c].pc = "tryReset"
       /\ apnsConnection' = ResetConn(running, apnsConnection, c)
       /\ reader' = [reader EXCEPT ![c] = [pc |-> "done", rsp |-> NilRes]]
       /\ last' = Step("tryReset", Nil, c, NoErr, 0, 0, FALSE)
  /\ UNCHANGED <<running, counter, certLoaded, sentQ, ident, errChan,
                 errChanClosed, closeCount, sentOnClosed, lock, nconns,
                 connClosed, pendingClose, consumer, resend, nextPn>>
  /\ ErrChannel' = EmptyBag

\* ------------------------------------------------------------------------
\* Client.saveErr(errRsp)
\* ------------------------------------------------------------------------
\* saveErr without its running check
SaveErrAlways(r) == FALSE

\* "if !p.running" of saveErr
SaveErrNotRunning(r) == ~r

\* saveErr takes the lock and checks running; when running it goes on to
\* the channel send with the lock held
SaveErrLock ==
  /\ lock = Nil
  /\ \E c \in Conns :
       /\ reader[c].pc = "saveErr"
       /\ IF SaveErrNotRunning(running)
            THEN /\ reader' = [reader EXCEPT ![c] = [pc |-> "done", rsp |-> NilRes]]
                 /\ lock' = Nil
            ELSE /\ reader' = [reader EXCEPT ![c].pc = "sending"]
                 /\ lock' = c
       /\ last' = Idle
  /\ UNCHANGED <<running, counter, apnsConnection, certLoaded, sentQ, ident,
                 errChan, errChanClosed, closeCount, sentOnClosed, nconns,
                 connClosed, pendingClose, consumer, resend, nextPn>>
  /\ ErrChannel' = EmptyBag

\* "p.errChan <- errRsp": blocks while the buffer is full; a send on a
\* closed channel panics; then the deferred Unlock
SaveErrSend ==
  /\ \E c \in Conns :
       /\ reader[c].pc = "sending"
       /\ lock = c
       /\ IF errChanClosed
            THEN /\ sentOnClosed' = TRUE
                 /\ UNCHANGED errChan
            ELSE /\ Len(errChan) < ErrChanCap
                 /\ errChan' = Append(errChan, reader[c].rsp)
                 /\ UNCHANGED sentOnClosed
       /\ reader' = [reader EXCEPT ![c] = [pc |-> "done", rsp |-> NilRes]]
       /\ lock' = Nil
       /\ last' = Idle
  /\ UNCHANGED <<running, counter, apnsConnection, certLoaded, sentQ, ident,
                 errChanClosed, closeCount, nconns, connClosed, pendingClose,
                 consumer, resend, nextPn>>
  /\ ErrChannel' = EmptyBag

\* ------------------------------------------------------------------------
\* The consumer goroutine of create(): for res := range c.errChan
\* ------------------------------------------------------------------------
ConsumerRecv ==
  /\ consumer.pc = "recv"
  /\ IF Len(errChan) > 0
       THEN /\ consumer' = [pc |-> "handle", res |-> Head(errChan)]
            /\ errChan' = Tail(errChan)
       ELSE /\ errChanClosed
            /\ consumer' = [pc |-> "done", res |-> NilRes]
            /\ UNCHANGED errChan
  /\ last' = Idle
  /\ UNCHANGED <<running, counter, apnsConnection, certLoaded, sentQ, ident,
                 errChanClosed, closeCount, sentOnClosed, lock, nconns,
                 connClosed, pendingClose, reader, resend, nextPn>>
  /\ ErrChannel' = EmptyBag

\* ------------------------------------------------------------------------
\* Client.handleErrResponse(res)
\* ------------------------------------------------------------------------
\* handleErrResponse without its running check
HandleAlwaysRuns(r) == FALSE

\* "if !client.running" of handleErrResponse
HandleNotRunning(r) == ~r

\* handleErrResponse without its "errPn == nil" return
HandleMissNever(t) == FALSE

\* "if errPn == nil": the report matches no entry of the queue
HandleMiss(t) == t.errPn = Nil

\* "go func() { ErrChannel <- &SendErr{Pn: errPn, Res: res} }()"
HandleEmission(errPn, res) == SetToBag({[Pn |-> errPn, Res |-> res]})

\* handleErrResponse that leaves the queue as it is
HandleClearKeep(q) == q

\* "client.sentQ.Clear()" after a matched report
HandleClear(q) == pnqClear

\* "if len(reSend) > 0 { go func(l) {...}(reSend) }"
HandleResend(rs, l) == IF Len(l) > 0 THEN Append(rs, l) ELSE rs

HandleErrResponse ==
  /\ lock = Nil
  /\ consumer.pc = "handle"
  /\ LET res == consumer.res
         t == pnqTail(sentQ, ident, res.Identifier)
     IN
     IF HandleNotRunning(running) \/ res.Command = 0 \/ HandleMiss(t)
       THEN /\ UNCHANGED <<sentQ, resend>>
            /\ ErrChannel' = EmptyBag
            /\ last' = [Step("handle", t.errPn, Nil, NoErr, 0, 0, FALSE) EXCEPT
                          !.err = IF HandleNotRunning(running) THEN ErrNotRunning
                                  ELSE "miss",
                          !.res = res]
       ELSE /\ ErrChannel' = HandleEmission(t.errPn, res)
            /\ sentQ' = HandleClear(sentQ)
            /\ resend' = HandleResend(resend, t.reSend)
            /\ last' = [Step("handle", t.errPn, Nil, NoErr, 0, 0, FALSE) EXCEPT
                          !.res = res]
  /\ consumer' = [pc |-> "recv", res |-> NilRes]
  /\ UNCHANGED <<running, counter, apnsConnection, certLoaded, ident, errChan,
                 errChanClosed, closeCount, sentOnClosed, lock, nconns,
                 connClosed, pendingClose, reader, nextPn>>

\* ------------------------------------------------------------------------
\* The re-send goroutines of handleErrResponse: client.Send(pn) for each pn
\* of the list, in order
\* ------------------------------------------------------------------------
\* the goroutines after goroutine i has sent the head of its list
ResendAdvance(rs, i) ==
  IF Len(rs[i]) = 1
    THEN SubSeq(rs, 1, i - 1) \o SubSeq(rs, i + 1, Len(rs))
    ELSE [rs EXCEPT ![i] = Tail(rs[i])]

ReSendWithin(conns) ==
  /\ lock \in {Nil, InReSend}
  /\ \E i \in 1..Len(resend) :
       /\ \E c \in Courses(apnsConnection) :
            DoSend(conns, "ReSend", Head(resend[i]), c.ser, c.io)
       /\ resend' = ResendAdvance(resend, i)
  /\ lock' = Nil
  /\ UNCHANGED <<running, errChan, errChanClosed, closeCount, sentOnClosed,
                 pendingClose, consumer, nextPn>>

ReSend == ReSendWithin(MaxConns)

\* ------------------------------------------------------------------------
\* Specification
\* ------------------------------------------------------------------------
Next ==
  \/ SendEnters
  \/ Send
  \/ ConnectEnters
  \/ Connect
  \/ Close
  \/ ConnClose
  \/ ReaderReadErr
  \/ ReaderFrame
  \/ TryReset
  \/ SaveErrLock
  \/ SaveErrSend
  \/ ConsumerRecv
  \/ HandleErrResponse
  \/ ReSendEnters
  \/ ReSend

Spec == Init /\ [][Next]_vars

\* The goroutines the client starts are scheduled by the Go runtime, and a
\* goroutine waiting for a sync.RWMutex that stays free gets it; the
\* callers (Send, Connect, Close) and the network (a frame, a read error,
\* the return of a Dial, Handshake or Write) owe nothing.
\* the consumer goroutine of create() and its handleErrResponse calls
ConsumerFairness == WF_vars(ConsumerRecv) /\ WF_vars(HandleErrResponse)

\* The client followed to its end: callers that pass at most ClosePn
\* notifications, with the fairness of the consumer and of the
\* "go conn.Close()" of Close.  A call that waits on the network owes
\* nothing: it may hold the lock for good.
CloseSendEnters == SendEntersWithin(ClosePn)

CloseSend == SendWithin(ClosePn, MaxConns)

FairNext ==
  \/ CloseSendEnters
  \/ CloseSend
  \/ ConnectEnters
  \/ Connect
  \/ Close
  \/ ConnClose
  \/ ReaderReadErr
  \/ ReaderFrame
  \/ TryReset
  \/ SaveErrLock
  \/ SaveErrSend
  \/ ConsumerRecv
  \/ HandleErrResponse
  \/ ReSendEnters
  \/ ReSend

FairSpec ==
  /\ Init
  /\ [][FairNext]_vars
  /\ ConsumerFairness
  /\ WF_vars(ConnClose)

\* ------------------------------------------------------------------------
\* The failure handoff under load: a client whose callers only send and
\* never close it, up to HandoffConns connections, and a gateway whose
\* every frame is the error response (command 8, status 8) for sequence
\* number 0
\* ------------------------------------------------------------------------
HandoffSendEnters == SendEntersWithin(HandoffPn)

HandoffSend == SendWithin(HandoffPn, HandoffConns)

HandoffFrame == ReaderFrameOf({ERR_RESPONSE_CMD}, {8}, {0})

HandoffReSend == ReSendWithin(HandoffConns)

HandoffNext ==
  \/ HandoffSendEnters
  \/ HandoffSend
  \/ ReaderReadErr
  \/ HandoffFrame
  \/ TryReset
  \/ SaveErrLock
  \/ SaveErrSend
  \/ ConsumerRecv
  \/ HandleErrResponse
  \/ ReSendEnters
  \/ HandoffReSend

\* The goroutines get the lock when it stays free: tryReset, saveErr, the
\* consumer's handleErrResponse and the Lock() of a re-send goroutine's
\* Send.  The return of a Send that waits on the network is owed by
\* nobody (tlsConn.Handshake() has no deadline).
HandoffSpec ==
  /\ Init
  /\ [][HandoffNext]_vars
  /\ ConsumerFairness
  /\ WF_vars(TryReset)
  /\ WF_vars(SaveErrLock)
  /\ WF_vars(SaveErrSend)
  /\ WF_vars(ReSendEnters)

\* ------------------------------------------------------------------------
\* Steps, as seen from the state before and after
\* ------------------------------------------------------------------------
\* this step is a call of Send that has returned (a caller's or a re-send)
SendStep == last'.op \in {"Send", "ReSend"}

\* ... a call accepted in the running state
AcceptedSendStep == SendStep /\ running

\* ... a call whose payload serialized, so that connectAndWrite ran
IOSendStep == AcceptedSendStep /\ last'.err # ErrSerialize

\* this step is the consumer's call of handleErrResponse
HandleStep == consumer.pc = "handle" /\ consumer'.pc = "recv"

\* the DeliveryFailure with absent report for notification pn
AbsentFailure(pn) == SetToBag({[Pn |-> pn, Res |-> NilRes]})

\* the queue after one more notification, written out: the last
\* MAX_SEND_Q entries of the extended sequence
KeepNewest(q, pn) ==
  LET ext == q \o <<pn>>
      n == IF Len(ext) < MAX_SEND_Q THEN Len(ext) ELSE MAX_SEND_Q
  IN SubSeq(ext, Len(ext) - n + 1, Len(ext))

\* ------------------------------------------------------------------------
\* C1: if the first write of a send fails and the single reconnect-and-retry
\* write of the same payload succeeds, send returns no error, appends the
\* notification to the replay queue, keeps the fresh connection cached and
\* emits no DeliveryFailure.
\* The code returns the first write's error after the good retry, so this
\* statement is violated.
\* ------------------------------------------------------------------------
C1_RetrySucceeds ==
  [][ (IOSendStep /\ last'.writes = 2 /\ last'.wroteOk) =>
        /\ last'.err = NoErr
        /\ sentQ' = KeepNewest(sentQ, last'.pn)
        /\ apnsConnection' = last'.conn
        /\ apnsConnection' # Nil
        /\ ErrChannel' = EmptyBag ]_vars

\* ------------------------------------------------------------------------
\* C2: every send makes at most two write attempts and at most one
\* reconnect after a write failure; when the first write failed and no retry
\* write succeeded (the reconnect or the retry failed), the send returns an
\* error, emits exactly one DeliveryFailure with absent report for the
\* notification, does not append it, and leaves no connection cached.
\* ------------------------------------------------------------------------
\* openConnection calls of this step beyond the one for a missing connection
Reconnects == last'.opens - (IF apnsConnection = Nil THEN 1 ELSE 0)

C2_RetryOnceThenFail ==
  [][ IOSendStep =>
        /\ last'.writes <= 2
        /\ Reconnects \in {0, 1}
        /\ Reconnects = 1 => last'.writes >= 1
        /\ (last'.writes >= 1 /\ ~last'.wroteOk) =>
             /\ last'.err # NoErr
             /\ ErrChannel' = AbsentFailure(last'.pn)
             /\ sentQ' = sentQ
             /\ apnsConnection' = Nil ]_vars

\* a send whose first write and whose retry on a fresh connection both failed
C2_Witness ==
  /\ last.op = "Send"
  /\ last.writes = 2
  /\ ~last.wroteOk
  /\ last.conn # Nil
  /\ apnsConnection = Nil
  /\ ErrChannel = AbsentFailure(last.pn)

\* ------------------------------------------------------------------------
\* Failure reports against the replay queue
\* ------------------------------------------------------------------------
\* positions of the queue whose notification carries sequence number id
Matches(id) == {k \in 1..Len(sentQ) : ident[sentQ[k]] = id}

\* the oldest of them
FirstMatch(id) == CHOOSE k \in Matches(id) : \A j \in Matches(id) : k <= j

\* notification p is in the replay queue or waits in a re-send goroutine
Queued(p) == \E k \in 1..Len(sentQ) : sentQ[k] = p
Awaiting(p) == \E i \in 1..Len(resend) : \E k \in 1..Len(resend[i]) : resend[i][k] = p
Held(p) == Queued(p) \/ Awaiting(p)

\* handleErrResponse runs on a report that the running client matches
MatchedReport ==
  /\ HandleStep
  /\ running
  /\ consumer.res.Command # 0
  /\ Matches(consumer.res.Identifier) # {}

\* what a matched report does: one DeliveryFailure with the matched
\* notification and the report; the entries after the match go, in order,
\* to one new re-send goroutine; the entries before it go nowhere
MatchedReportEffect ==
  LET k == FirstMatch(consumer.res.Identifier)
      after == [i \in 1..(Len(sentQ) - k) |-> sentQ[k + i]]
  IN
  /\ ErrChannel' = SetToBag({[Pn |-> sentQ[k], Res |-> consumer.res]})
  /\ resend' = IF after = << >> THEN resend ELSE resend \o <<after>>
  /\ \A p \in {sentQ[j] : j \in 1..k} : ~Held(p)'

\* a notification already passed to Send that is neither queued nor
\* awaiting a re-send is never taken up again
DroppedStaysDropped ==
  \A p \in PNs : (p <= nextPn /\ ~Held(p)) => ~Held(p)'

\* a re-send takes the head of a re-send goroutine's list
ResendFromList ==
  last'.op = "ReSend" =>
    \E i \in 1..Len(resend) : Head(resend[i]) = last'.pn

\* the notification of this Send call gets the counter as its new sequence
\* number: the number this call assigns, which after a full turn of the
\* counter is again the number the notification carried before
NewSequenceNumber ==
  /\ ident'[last'.pn] = counter
  /\ last'.err # ErrNotRunning

\* a re-send passes its notification to Send: on a running client Send
\* gives it a new sequence number, on a closed client Send rejects it and
\* assigns nothing
ResendThroughSend ==
  /\ (last'.op = "ReSend" /\ running) => NewSequenceNumber
  /\ (last'.op = "ReSend" /\ ~running) =>
       (last'.err = ErrNotRunning /\ ident' = ident)

\* what the steps do with a matched report and the notifications it drains
MatchedReportSteps ==
  /\ MatchedReport => MatchedReportEffect
  /\ DroppedStaysDropped
  /\ ResendFromList
  /\ ResendThroughSend

\* saveErr of reader c holds the client lock at its channel send
HoldsLock(c) == reader[c].pc = "sending" /\ lock = c

\* the channel send of a saveErr cannot complete (buffer full) and the
\* consumer cannot make room: it has taken a report and waits for the very
\* lock that saveErr holds
HandoffBlocked ==
  \E c \in Conns :
    /\ HoldsLock(c)
    /\ ~errChanClosed
    /\ Len(errChan) >= ErrChanCap
    /\ consumer.pc = "handle"

\* ------------------------------------------------------------------------
\* C3: a report matching an entry of the replay queue emits exactly one
\* DeliveryFailure with the matched notification and the report; every
\* notification inserted after the matched one is resubmitted through send
\* and receives a new sequence number; no notification inserted before it
\* is ever resubmitted.  Stated on finite runs, for a client that is never
\* closed: the steps do that with the report and with each re-send, and
\* while a notification inserted after the matched one awaits its
\* resubmission on a running client the lock that its send needs is not
\* held for good.
\* The blocked handoff of C11 holds the lock for good while such a
\* notification waits, so it is never resubmitted: violated.
\* ------------------------------------------------------------------------
C3_MatchedReport ==
  /\ [][MatchedReportSteps]_vars
  /\ [](\A p \in PNs : (running /\ Awaiting(p)) => ~HandoffBlocked)

\* ------------------------------------------------------------------------
\* C4: a report whose sequence number matches no entry of the replay queue
\* leaves the queue unchanged, emits no DeliveryFailure and resubmits
\* nothing.
\* ------------------------------------------------------------------------
C4_UnmatchedReport ==
  [][ (HandleStep /\ Matches(consumer.res.Identifier) = {}) =>
        /\ sentQ' = sentQ
        /\ ErrChannel' = EmptyBag
        /\ resend' = resend
        /\ ident' = ident ]_vars

\* the queue is full, the notification with sequence number 0 was evicted,
\* and a report for 0 has just been handled as a miss
C4_Witness ==
  /\ last.op = "handle"
  /\ last.err = "miss"
  /\ running
  /\ last.res.Identifier = 0
  /\ Len(sentQ) = MAX_SEND_Q
  /\ ident[1] = 0
  /\ ~Queued(1)
  /\ \A k \in 1..Len(sentQ) : ident[sentQ[k]] # 0

\* ------------------------------------------------------------------------
\* C5: after Close() has returned, every Send and every Connect fails with
\* the not-running error without opening a connection or writing to one,
\* and leaves the sequence counter, the replay queue, the notification and
\* the cached connection (absent) unchanged.
\* ------------------------------------------------------------------------
C5_ClosedRejects ==
  [][ (~running /\ last'.op \in {"Send", "ReSend", "Connect"}) =>
        /\ last'.err = ErrNotRunning
        /\ last'.writes = 0
        /\ last'.opens = 0
        /\ nconns' = nconns
        /\ counter' = counter
        /\ ident' = ident
        /\ sentQ' = sentQ
        /\ apnsConnection = Nil
        /\ apnsConnection' = Nil
        /\ ErrChannel' = EmptyBag ]_vars

\* a caller's Send rejected by a closed client that has sent before
C5_Witness ==
  /\ ~running
  /\ last.op = "Send"
  /\ last.err = ErrNotRunning
  /\ nextPn >= 1
  /\ Len(sentQ) >= 1
  /\ nconns >= 1

\* ------------------------------------------------------------------------
\* C6: the replay queue never holds more than C entries, and every send
\* that succeeds leaves it holding the newest min(n, C) of the entries it
\* held plus the notification just sent, in send order (the oldest entry is
\* the one evicted); so after N successful sends with no failure report in
\* between it holds the min(N, C) most recently sent notifications.
\* ------------------------------------------------------------------------
C6_BoundedQueue ==
  [][ /\ Len(sentQ') <= MAX_SEND_Q
      /\ (SendStep /\ last'.err = NoErr) => sentQ' = KeepNewest(sentQ, last'.pn)
      /\ (SendStep /\ last'.err # NoErr) => sentQ' = sentQ ]_vars

\* one more successful send than the capacity, no report handled: the
\* first notification has been evicted and the rest are in send order
C6_Witness ==
  /\ last.op = "Send"
  /\ last.err = NoErr
  /\ nextPn = MAX_SEND_Q + 1
  /\ Len(sentQ) = MAX_SEND_Q
  /\ \A k \in 1..Len(sentQ) : sentQ[k] = k + 1

\* ------------------------------------------------------------------------
\* C7: no two entries simultaneously resident in the replay queue carry the
\* same sequence number (the capacity is below the wraparound bound and the
\* callers pass distinct notification objects).
\* The counter also advances for accepted sends that fail, so the entries
\* of a queue within capacity can be a whole wraparound apart: violated.
\* ------------------------------------------------------------------------
C7_UniqueSequenceNumbers ==
  MAX_SEND_Q < IdentifierUbound =>
    \A i, j \in 1..Len(sentQ) : i # j => ident[sentQ[i]] # ident[sentQ[j]]

\* ------------------------------------------------------------------------
\* C8: the sequence counter stays in [0, bound); a send accepted in the
\* running state gives the notification the counter's value and advances
\* the counter by exactly one modulo the bound, whether it then succeeds,
\* fails to serialize, or fails to connect or write, and however many
\* writes it makes; a rejected send and every other step leave it alone.
\* ------------------------------------------------------------------------
C8_CounterAdvance ==
  [][ /\ counter' \in 0..(IdentifierUbound - 1)
      /\ AcceptedSendStep =>
           /\ ident'[last'.pn] = counter
           /\ counter' = IF counter = IdentifierUbound - 1 THEN 0 ELSE counter + 1
      /\ ~AcceptedSendStep => counter' = counter ]_vars

\* the counter has wrapped to 0 on a send that failed after a retry
C8_Witness ==
  /\ last.op = "Send"
  /\ last.err # NoErr
  /\ last.writes = 2
  /\ ident[last.pn] = IdentifierUbound - 1
  /\ counter = 0

\* ------------------------------------------------------------------------
\* C9: the internal reporting channel is closed at most once, exactly when
\* the client stops running, and no report is ever sent on it after it has
\* been closed: no saveErr is at its channel send once the channel is
\* closed.
\* ------------------------------------------------------------------------
C9_ChannelClosedOnce ==
  /\ closeCount <= 1
  /\ errChanClosed <=> ~running
  /\ errChanClosed <=> closeCount = 1
  /\ ~sentOnClosed
  /\ errChanClosed => \A c \in Conns : reader[c].pc # "sending"

\* a second Close() has returned while a reader's handoff is still to run
C9_Witness ==
  /\ last.op = "Close"
  /\ last.err = ErrNotRunning
  /\ closeCount = 1
  /\ \E c \in Conns : reader[c].pc = "saveErr"

\* ------------------------------------------------------------------------
\* C10: when a send needs a connection (none is cached) and opening it
\* fails, send returns the certificate, dial or handshake error, emits
\* exactly one DeliveryFailure with absent report for the notification,
\* attempts no write, does not append the notification, and leaves no
\* connection cached.
\* ------------------------------------------------------------------------
\* the send found no connection cached and connectAndWrite ended with none
OpenFailed ==
  /\ IOSendStep
  /\ apnsConnection = Nil
  /\ last'.conn = Nil

C10_OpenFails ==
  [][ OpenFailed =>
        /\ last'.err \in {ErrCert, ErrDial, ErrHandshake}
        /\ last'.opens = 1
        /\ last'.writes = 0
        /\ nconns' = nconns
        /\ ErrChannel' = AbsentFailure(last'.pn)
        /\ sentQ' = sentQ
        /\ apnsConnection' = Nil ]_vars

\* a send on a client with a queued notification and no cached connection
\* whose handshake failed
C10_Witness ==
  /\ last.op = "Send"
  /\ last.err = ErrHandshake
  /\ last.writes = 0
  /\ apnsConnection = Nil
  /\ Len(sentQ) >= 1
  /\ ErrChannel = AbsentFailure(last.pn)

\* ------------------------------------------------------------------------
\* Connections and their readers
\* ------------------------------------------------------------------------
\* startRead of connection c has returned (the goroutines it started, the
\* invalidation or the handoff, may still be running)
ReaderExited(c) == reader[c].pc \in {"tryReset", "saveErr", "sending", "done"}

\* the connections opened by the client and not yet closed
LiveConns == {c \in 1..nconns : c \notin connClosed}

\* ------------------------------------------------------------------------
\* C12: every reader performs exactly one read and then terminates, and on
\* every exit path (frame parsed and reported, unknown command discarded,
\* unknown status discarded, read error) the connection it was bound to has
\* been closed.
\* startRead closes the connection on a read error only; after a frame it
\* returns with the connection open: violated.
\* ------------------------------------------------------------------------
C12_ReaderClosesConn ==
  \A c \in Conns : ReaderExited(c) => c \in connClosed

\* ------------------------------------------------------------------------
\* C13: in every reachable state at most one connection opened by the
\* client is live (opened and not yet closed): whenever a new connection is
\* opened and cached, and whenever the cached reference is discarded after
\* a failed send, the previously cached connection has been closed.
\* The reconnect after a write failure replaces the cached connection
\* without closing it, and a failed Send drops it unclosed: violated.
\* ------------------------------------------------------------------------
C13_OneLiveConnection ==
  /\ Cardinality(LiveConns) <= 1
  /\ apnsConnection = Nil => LiveConns \subseteq pendingClose

\* this step is tryReset(c), started by the reader of connection c
TryResetStep(c) == reader[c].pc = "tryReset" /\ reader'[c].pc = "done"

\* ------------------------------------------------------------------------
\* C14: an invalidation requested by the reader of connection X clears the
\* cached connection only if the cached connection is still X; under any
\* interleaving with sends that reconnect, a stale reader never clears a
\* newer cached connection, and an invalidation arriving after Close()
\* changes nothing.
\* ------------------------------------------------------------------------
C14_StaleInvalidation ==
  [][ \A c \in Conns : TryResetStep(c) =>
        /\ apnsConnection' = IF running /\ apnsConnection = c THEN Nil
                             ELSE apnsConnection
        /\ UNCHANGED <<running, counter, sentQ, ident, errChan, errChanClosed,
                       connClosed, pendingClose, nconns, resend>>
        /\ ErrChannel' = EmptyBag ]_vars

\* the invalidation of connection 1 has just run on a running client whose
\* cached connection is the newer connection 2, and left it cached
C14_Witness ==
  /\ last.op = "tryReset"
  /\ last.conn = 1
  /\ running
  /\ apnsConnection = 2
  /\ 1 \in connClosed

\* ------------------------------------------------------------------------
\* C16: immediately after reportFailure has handled a report whose sequence
\* number was present, the replay queue is empty (entries before the match
\* are discarded too); the queue stays empty until a send, so a second
\* reportFailure for the same sequence number with no send in between
\* finds nothing, emits no DeliveryFailure and triggers no resend.
\* ------------------------------------------------------------------------
C16_DrainedQueue ==
  [][ /\ MatchedReport => sentQ' = << >>
      /\ (sentQ = << >> /\ ~SendStep) => sentQ' = << >>
      /\ (HandleStep /\ sentQ = << >>) =>
           /\ Matches(consumer.res.Identifier) = {}
           /\ ErrChannel' = EmptyBag
           /\ resend' = resend
           /\ ident' = ident ]_vars

\* a report for sequence number 0 has just found nothing in the queue that
\* an earlier report for 0 emptied: notification 1 (number 0) was matched
\* then, and its tail, notification 2, still awaits its re-send
C16_Witness ==
  /\ last.op = "handle"
  /\ last.err = "miss"
  /\ running
  /\ last.res.Identifier = 0
  /\ ident[1] = 0
  /\ ~Held(1)
  /\ resend = << <<2>> >>
  /\ sentQ = << >>
  /\ ErrChannel = EmptyBag

\* ------------------------------------------------------------------------
\* C19: when serialization of the notification fails, send returns the
\* error before any network I/O: no connection is opened, nothing is
\* written, the cached connection and the replay queue are unchanged, and
\* no DeliveryFailure is emitted.
\* ------------------------------------------------------------------------
C19_SerializeFails ==
  [][ (SendStep /\ last'.payload = "fail") =>
        /\ last'.err = ErrSerialize
        /\ last'.opens = 0
        /\ last'.writes = 0
        /\ nconns' = nconns
        /\ reader' = reader
        /\ certLoaded' = certLoaded
        /\ apnsConnection' = apnsConnection
        /\ sentQ' = sentQ
        /\ ErrChannel' = EmptyBag ]_vars

\* a caller's Send whose payload did not serialize, on a client with a
\* cached connection and a queued notification, both still there
C19_Witness ==
  /\ last.op = "Send"
  /\ last.payload = "fail"
  /\ last.err = ErrSerialize
  /\ apnsConnection # Nil
  /\ Len(sentQ) >= 1
  /\ ErrChannel = EmptyBag

\* ------------------------------------------------------------------------
\* C20: for every send accepted in the running state whose payload
\* serializes, exactly one of two outcomes occurs: the send returns no
\* error and the notification is appended once to the replay queue, or the
\* send returns an error and exactly one DeliveryFailure with absent report
\* is emitted for it; and a notification whose payload was written
\* successfully to a connection is never reported as a DeliveryFailure with
\* absent report.
\* After a failed first write and a good retry write connectAndWrite still
\* returns the first write's error, and Send reports the written
\* notification as failed: violated.
\* ------------------------------------------------------------------------
C20_OneOutcome ==
  [][ (SendStep /\ running /\ last'.payload = "ok") =>
        /\ \/ /\ last'.err = NoErr
              /\ sentQ' = KeepNewest(sentQ, last'.pn)
              /\ ErrChannel' = EmptyBag
           \/ /\ last'.err # NoErr
              /\ sentQ' = sentQ
              /\ ErrChannel' = AbsentFailure(last'.pn)
        /\ last'.wroteOk => ErrChannel' # AbsentFailure(last'.pn) ]_vars

\* ------------------------------------------------------------------------
\* After Close()
\* ------------------------------------------------------------------------
\* this step is the lock-and-check of saveErr for the report of reader c
SaveErrStep(c) == reader[c].pc = "saveErr" /\ reader'[c].pc # "saveErr"

\* a report handled or handed off on a closed client is dropped
ClosedDropsReports ==
  /\ (HandleStep /\ ~running) =>
       /\ ErrChannel' = EmptyBag
       /\ resend' = resend
       /\ sentQ' = sentQ
  /\ \A c \in Conns : (SaveErrStep(c) /\ ~running) =>
       /\ reader'[c].pc = "done"
       /\ errChan' = errChan
       /\ ErrChannel' = EmptyBag
       /\ resend' = resend
       /\ sentQ' = sentQ

\* the consumer ends exactly at a closed and drained channel, and for good
ConsumerEnds ==
  /\ (consumer.pc # "done" /\ consumer'.pc = "done") =>
       (errChanClosed /\ errChan = << >>)
  /\ (consumer.pc = "recv" /\ consumer' # consumer /\ errChanClosed
      /\ errChan = << >>) => consumer'.pc = "done"
  /\ consumer.pc = "done" => consumer'.pc = "done"

\* Close() starts the close of the connection it finds cached; a started
\* close ends with the connection closed; a closed client caches nothing
ClosedCachesNothing ==
  /\ (last'.op = "Close" /\ running /\ apnsConnection # Nil) =>
       apnsConnection \in pendingClose'
  /\ pendingClose \subseteq (pendingClose' \cup connClosed')
  /\ connClosed \subseteq connClosed'
  /\ ~running => (~running' /\ apnsConnection = Nil /\ apnsConnection' = Nil
                  /\ nconns' = nconns)

\* ------------------------------------------------------------------------
\* C18: after Close(), a failure report that is still buffered in the
\* internal channel, or that a reader hands off later, is dropped: it emits
\* no DeliveryFailure, triggers no resend and leaves the replay queue
\* unchanged; the consumer goroutine terminates once the buffered reports
\* are drained, and the connection cached at close time is closed and no
\* connection is cached ever again.
\* ------------------------------------------------------------------------
C18_AfterClose ==
  /\ [][ClosedDropsReports /\ ConsumerEnds /\ ClosedCachesNothing]_vars
  /\ ~running ~> (consumer.pc = "done" /\ pendingClose = {})

\* a report buffered at Close() that matches a queued notification has
\* just been dropped by the closed client
C18_Witness ==
  /\ last.op = "handle"
  /\ last.err = ErrNotRunning
  /\ ~running
  /\ Matches(last.res.Identifier) # {}
  /\ ErrChannel = EmptyBag
  /\ resend = << >>

\* ------------------------------------------------------------------------
\* The failure handoff: saveErr -> errChan -> consumer -> handleErrResponse
\* ------------------------------------------------------------------------
\* ------------------------------------------------------------------------
\* C11: the failure handoff never deadlocks: under any interleaving of
\* sends, several readers handing off failure reports, and the consumer
\* goroutine, the client lock is always eventually released and every
\* report handed off by a reader is eventually passed to reportFailure (or
\* dropped because the client is closed), also when the internal buffered
\* channel is full.  Stated on finite runs: whenever a saveErr holds the
\* lock, its channel send can complete or the consumer can receive.
\* saveErr blocks on the full channel with the lock held while the
\* consumer waits for the lock: violated.
\* ------------------------------------------------------------------------
C11_HandoffNeverBlocks ==
  \A c \in Conns :
    HoldsLock(c) =>
      \/ errChanClosed
      \/ Len(errChan) < ErrChanCap
      \/ consumer.pc = "recv"

\* a re-send step passes the head of one re-send goroutine's list to Send
\* and, whatever Send returns, leaves the rest of that list to come, in
\* order
ResendInOrder ==
  last'.op = "ReSend" =>
    \E i \in 1..Len(resend) :
      /\ last'.pn = Head(resend[i])
      /\ resend' = ResendAdvance(resend, i)

\* only a re-send step takes a notification off a re-send list
ResendOnlyBySend ==
  \A p \in PNs : (Awaiting(p) /\ ~Awaiting(p)') => (last'.op = "ReSend" /\ last'.pn = p)

\* ------------------------------------------------------------------------
\* C15: while the client stays running, each notification of the tail
\* drained by a matched failure report is eventually passed to send exactly
\* once, the resends of one tail are issued in original send order, and a
\* resend that returns an error does not prevent the later notifications of
\* the tail from being resent.  Stated on finite runs: the re-sends leave
\* their lists one by one from the head, and while a notification awaits
\* its re-send on a running client the lock that its Send needs is not held
\* for good.
\* The blocked handoff of C11 holds the lock for good while notifications
\* await their re-send: violated.
\* ------------------------------------------------------------------------
C15_TailResent ==
  /\ [][ResendInOrder /\ ResendOnlyBySend]_vars
  /\ []((running /\ resend # << >>) => ~HandoffBlocked)

\* this step is startRead of connection c ending without a report: its
\* read failed, or it discarded the frame
ReaderDiscardStep(c) ==
  /\ reader[c].pc = "read"
  /\ reader'[c].pc \in {"tryReset", "done"}

\* a step that hands no report to the consumer and touches nothing the
\* reports act on
NoReportEffect ==
  /\ errChan' = errChan
  /\ consumer' = consumer
  /\ ErrChannel' = EmptyBag
  /\ resend' = resend
  /\ sentQ' = sentQ
  /\ counter' = counter
  /\ ident' = ident

\* the invalidation started by the reader of the cached connection is
\* still to run
ResetPending == \E c \in Conns : reader[c].pc = "tryReset" /\ apnsConnection = c

\* ------------------------------------------------------------------------
\* C17: when a reader's read fails (including clean closure) or the frame
\* it read has an unrecognized command or an unknown status, no failure
\* report reaches reportFailure: no DeliveryFailure is emitted, no
\* notification is resubmitted, and the replay queue and sequence counter
\* are unchanged; on read failure the cached connection is eventually
\* cleared if it is still the reader's connection.  Stated on finite runs:
\* the reader's step and its invalidation have no such effect, and while
\* the invalidation of the cached connection is still to run on a running
\* client the lock it needs is not held for good.
\* The blocked handoff of C11 holds the lock for good while the
\* invalidation waits for it, and the dead connection stays cached:
\* violated.
\* ------------------------------------------------------------------------
C17_NoReportNoEffect ==
  /\ [][\A c \in Conns : (ReaderDiscardStep(c) \/ TryResetStep(c)) =>
                           NoReportEffect]_vars
  /\ []((running /\ ResetPending) => ~HandoffBlocked)

====
